---- MODULE Spec2Model ----
(***************************************************************************)
(* SilicaSense Bluetooth monitor: the reading-ingestion and polling        *)
(* control loop of the top-level App component (src/App.tsx).              *)
(*                                                                         *)
(* Text is modelled as a sequence of one-character strings, so that        *)
(* split, trim, toUpperCase and parseFloat are computed character by       *)
(* character as the JavaScript built-ins compute them.                     *)
(***************************************************************************)
EXTENDS Integers, Sequences, FiniteSets, TLC

NULL == "null"
\* latestReading before the first reading: null, kept apart from every Reading
NoReading == [null |-> TRUE]

(***************************************************************************)
(* Bounds of the model.                                                    *)
(***************************************************************************)
\* readings processed before the device and the simulator fall silent
MaxClock == 2
\* characteristic reads that may be pending at the same time
MaxInFlight == 2

(***************************************************************************)
(* Program constants.                                                      *)
(***************************************************************************)
HistoryCap == 20
CadenceWet == 30
CadenceMixed == 120
CadenceDry == 300
TemporaryBuffer == 5
SimulationFirstRead == 1

SaturationMessage == "Excessive moisture detected! Silica gel is saturated."
DisconnectedMessage == "Device Disconnected"

(***************************************************************************)
(* Text helpers: String.prototype.split / trim / toUpperCase / includes.   *)
(***************************************************************************)
Digits == {"0", "1", "2", "3", "4", "5", "6", "7", "8", "9"}

DigitVal(c) ==
  CASE c = "0" -> 0 [] c = "1" -> 1 [] c = "2" -> 2 [] c = "3" -> 3
    [] c = "4" -> 4 [] c = "5" -> 5 [] c = "6" -> 6 [] c = "7" -> 7
    [] c = "8" -> 8 [] c = "9" -> 9 [] OTHER -> 0

IsSpace(c) == c \in {" ", "\n", "\r", "\t"}

UpperChar(c) ==
  CASE c = "w" -> "W" [] c = "e" -> "E" [] c = "t" -> "T"
    [] c = "m" -> "M" [] c = "i" -> "I" [] c = "x" -> "X"
    [] c = "d" -> "D" [] c = "r" -> "R" [] c = "y" -> "Y"
    [] OTHER -> c

ToUpperCase(s) == [i \in 1..Len(s) |-> UpperChar(s[i])]

RECURSIVE TrimStart(_)
TrimStart(s) ==
  IF s # <<>> /\ IsSpace(Head(s)) THEN TrimStart(Tail(s)) ELSE s

RECURSIVE TrimEnd(_)
TrimEnd(s) ==
  IF s # <<>> /\ IsSpace(s[Len(s)]) THEN TrimEnd(SubSeq(s, 1, Len(s) - 1)) ELSE s

Trim(s) == TrimEnd(TrimStart(s))

\* s.split(','): always at least one part; k commas give k+1 parts
RECURSIVE SplitFrom(_, _, _)
SplitFrom(s, cur, acc) ==
  IF s = <<>> THEN Append(acc, cur)
  ELSE IF Head(s) = "," THEN SplitFrom(Tail(s), <<>>, Append(acc, cur))
  ELSE SplitFrom(Tail(s), Append(cur, Head(s)), acc)

Split(s) == SplitFrom(s, <<>>, <<>>)

\* s.includes(w): w occurs as a contiguous, case-sensitive substring
Includes(s, w) ==
  \E i \in 1..(Len(s) + 1) :
    /\ i + Len(w) - 1 <= Len(s)
    /\ SubSeq(s, i, i + Len(w) - 1) = w

WetWord == <<"W", "E", "T">>
MixedWord == <<"M", "I", "X", "E", "D">>

(***************************************************************************)
(* parseFloat: skip leading white space, an optional sign, then the        *)
(* longest prefix digits[.digits] or .digits; NaN when there is no such    *)
(* prefix.  A number is [mant, exp] standing for mant / 10^exp, with the   *)
(* trailing fraction zeros dropped so that equal numbers are equal values; *)
(* the field nan marks the one value that is not a number.                 *)
(***************************************************************************)
NaN == [nan |-> TRUE, mant |-> 0, exp |-> 0]

RECURSIVE DigitRun(_)
DigitRun(s) ==
  IF s # <<>> /\ Head(s) \in Digits THEN <<Head(s)>> \o DigitRun(Tail(s)) ELSE <<>>

RECURSIVE DigitsValue(_, _)
DigitsValue(ds, acc) ==
  IF ds = <<>> THEN acc ELSE DigitsValue(Tail(ds), 10 * acc + DigitVal(Head(ds)))

RECURSIVE Normalise(_, _)
Normalise(mant, exp) ==
  IF exp > 0 /\ mant % 10 = 0 THEN Normalise(mant \div 10, exp - 1)
  ELSE [nan |-> FALSE, mant |-> mant, exp |-> exp]

Drop(s, n) == SubSeq(s, n + 1, Len(s))

ParseFloat(str) ==
  LET s0   == TrimStart(str)
      neg  == s0 # <<>> /\ Head(s0) = "-"
      s1   == IF s0 # <<>> /\ Head(s0) \in {"-", "+"} THEN Tail(s0) ELSE s0
      ip   == DigitRun(s1)
      s2   == Drop(s1, Len(ip))
      dot  == s2 # <<>> /\ Head(s2) = "."
      fp   == IF dot THEN DigitRun(Tail(s2)) ELSE <<>>
      mag  == DigitsValue(ip \o fp, 0)
  IN  IF ip = <<>> /\ fp = <<>> THEN NaN
      ELSE Normalise(IF neg THEN 0 - mag ELSE mag, Len(fp))

Zero == [nan |-> FALSE, mant |-> 0, exp |-> 0]

\* x || 0 : NaN and 0 are falsy
OrZero(x) == IF x = NaN \/ x = Zero THEN Zero ELSE x

(***************************************************************************)
(* processData, lines 58-76: payload -> (temperature, moisture).           *)
(***************************************************************************)
\* matches a token that merely contains the word
ParseMoistureContains(moistureStr) ==
  IF Includes(moistureStr, WetWord) THEN "WET"
  ELSE IF Includes(moistureStr, MixedWord) THEN "MIXED"
  ELSE "DRY"

\* an if/else chain without its final else: the initial UNKNOWN survives
ParseMoistureTokenUnknown(moistureStr) ==
  IF moistureStr = WetWord THEN "WET"
  ELSE IF moistureStr = MixedWord THEN "MIXED"
  ELSE "UNKNOWN"

ParseMoistureToken(moistureStr) ==
  IF moistureStr = WetWord THEN "WET"
  ELSE IF moistureStr = MixedWord THEN "MIXED"
  ELSE "DRY"

\* a fallback that upper-cases the payload first, as the comma path does
FallbackMoistureAnyCase(dataString) ==
  IF Includes(ToUpperCase(dataString), WetWord) THEN "WET"
  ELSE IF Includes(ToUpperCase(dataString), MixedWord) THEN "MIXED"
  ELSE "DRY"

FallbackMoisture(dataString) ==
  IF Includes(dataString, WetWord) THEN "WET"
  ELSE IF Includes(dataString, MixedWord) THEN "MIXED"
  ELSE "DRY"

ParseReading(dataString) ==
  LET parts == Split(dataString)
  IN  IF Len(parts) >= 2
      THEN [temperature |-> ParseFloat(parts[1]),
            moisture    |-> ParseMoistureToken(ToUpperCase(Trim(parts[2])))]
      ELSE [temperature |-> OrZero(ParseFloat(dataString)),
            moisture    |-> FallbackMoisture(dataString)]

\* what the peripheral sends (HM-10 UART lines), one per moisture status
S_WET == <<"3", "7", ".", "5", ",", "W", "E", "T">>
S_MIXED == <<"3", "8", ",", "m", "i", "x", "e", "d", "\r", "\n">>
S_DRY == <<"3", "6", ",", "D", "R", "Y">>
DevicePayloads == {S_WET, S_MIXED, S_DRY}

\* the simulator's `${simTemp},${simMoisture}`, for one of the temperatures
\* that (36 + Math.random() * 1.5).toFixed(1) yields
SimTemp == <<"3", "6", ".", "0">>
SimPayload(m) ==
  SimTemp \o <<",">> \o
    (CASE m = "WET" -> WetWord [] m = "MIXED" -> MixedWord [] OTHER -> <<"D", "R", "Y">>)

Moistures == {"WET", "MIXED", "DRY"}

\* processData's parse of the lines above, tabulated once
ParsedLines == [l \in DevicePayloads \cup {SimPayload(m) : m \in Moistures} |-> ParseReading(l)]

Parsed(dataString) ==
  IF dataString \in DOMAIN ParsedLines THEN ParsedLines[dataString]
  ELSE ParseReading(dataString)

(***************************************************************************)
(* State of the App component and of its environment.                      *)
(***************************************************************************)
VARIABLES
  connectionStatus,   \* useState: 'disconnected' | 'connecting' | 'connected'
  readings,           \* useState: the history, oldest first
  latestReading,      \* useState: Reading | null
  notification,       \* useState: the in-app banner, string | null
  errorMessage,       \* useState of the error-banner version, string | null
  nextUpdateIn,       \* useState: the countdown in seconds
  isSimulationMode,   \* useState
  deviceRef,          \* useRef: the selected device | null
  characteristicRef,  \* useRef: the data characteristic | null
  timers,             \* interval timers created by the polling effect and not cleared
  attempts,           \* the connectBluetooth calls that are suspended at an await
  inFlight,           \* characteristic.readValue() promises not yet settled
  gattConnected,      \* device.gatt.connected of the peripheral
  permissionGranted,  \* Notification.permission === 'granted'
  vibrateSupported,   \* navigator.vibrate is defined
  osNotified,         \* the last step constructed an OS Notification
  vibrated,           \* the last step called navigator.vibrate
  fetched,            \* what fetchReading did in the last step: "none", "sim" (simulated
                      \* reading), "read" (readValue called), "skip" (no handle),
                      \* "rejected" (its catch block ran)
  clock,              \* readings processed so far (Date.now() of the newest id)
  arrived,            \* the readings processed since the history was last emptied
  chart,              \* what <HistoryChart data={readings} /> renders
  countdownFrom,      \* the cadence the last reading left in nextUpdateIn, 0 once disturbed
  ticksSince,         \* timer ticks since that reading, kept when the countdown expires
  variant,            \* which version of the component runs
  world               \* what the environment may do: the lines the peripheral sends,
                      \* the statuses the simulator draws, the readings it delivers,
                      \* the connect calls the user overlaps

vars == <<connectionStatus, readings, latestReading, notification, errorMessage,
          nextUpdateIn, isSimulationMode, deviceRef, characteristicRef, timers,
          attempts, inFlight, gattConnected, permissionGranted, vibrateSupported,
          osNotified, vibrated, fetched, clock, arrived, chart, countdownFrom,
          ticksSince, variant, world>>

\* concurrent connectBluetooth calls the model follows
MaxAttempts == 2

Slots == 1..MaxAttempts
Idle == [pc |-> "idle", sim |-> FALSE]

SimPayloads == {SimPayload(m) : m \in world.draws}

ReadFailedMessage == "Failed to read data. Device might be out of range."
ErrorNames == {"NotFoundError", "SecurityError", "NetworkError", "Error"}

(***************************************************************************)
(* processData, lines 78-101.                                              *)
(***************************************************************************)
\* keeps the oldest n instead of the newest n: slice(0, 20)
KeepFirst(h, n) == IF Len(h) <= n THEN h ELSE SubSeq(h, 1, n)

\* [...prev, newReading].slice(-20)
KeepLast(h, n) == IF Len(h) <= n THEN h ELSE SubSeq(h, Len(h) - n + 1, Len(h))

Cadence(moisture) ==
  IF moisture = "WET" THEN CadenceWet
  ELSE IF moisture = "MIXED" THEN CadenceMixed
  ELSE CadenceDry

(***************************************************************************)
(* HistoryChart, src/unnamed/part_000 lines 9-24: the history mapped to    *)
(* chart points, the last ten of them kept, and nothing rendered when      *)
(* there is none.  The time label of a point is a formatting of the        *)
(* reading's timestamp to hour and minute and takes no part in what is     *)
(* plotted where.                                                          *)
(***************************************************************************)
ChartCap == 10

One == [nan |-> FALSE, mant |-> 1, exp |-> 0]
Half == [nan |-> FALSE, mant |-> 5, exp |-> 1]

\* moistureVal, lines 13-15
MoistureVal(moisture) ==
  IF moisture = "WET" THEN One ELSE IF moisture = "MIXED" THEN Half ELSE Zero

ChartPoint(r) == [temp |-> r.temperature, moistureLevel |-> MoistureVal(r.moisture)]

\* a chart of the ten oldest readings: slice(0, 10)
HistoryChartOldest(data) ==
  LET chartData == KeepFirst([k \in 1..Len(data) |-> ChartPoint(data[k])], ChartCap)
  IN  [rendered |-> Len(chartData) # 0, points |-> chartData]

HistoryChart(data) ==
  LET chartData == KeepLast([k \in 1..Len(data) |-> ChartPoint(data[k])], ChartCap)
  IN  [rendered |-> Len(chartData) # 0, points |-> chartData]

\* constructs the OS notification without looking at Notification.permission
TriggerNotificationUnchecked(message) ==
  /\ notification' = message
  /\ osNotified' = TRUE
  /\ vibrated' = vibrateSupported

\* triggerNotification, lines 38-53
TriggerNotification(message) ==
  /\ notification' = message
  /\ osNotified' = permissionGranted
  /\ vibrated' = vibrateSupported

NewReading(dataString) ==
  LET p == Parsed(dataString)
  IN  [id |-> clock + 1, temperature |-> p.temperature, moisture |-> p.moisture]

\* everything processData writes except nextUpdateIn, which the caller settles
ProcessData(dataString) ==
  LET r == NewReading(dataString)
  IN  /\ clock < world.limit
      /\ clock' = clock + 1
      /\ arrived' = Append(arrived, r)
      /\ latestReading' = r
      /\ readings' = KeepLast(Append(readings, r), HistoryCap)
      /\ chart' = HistoryChart(readings')
      /\ IF r.moisture = "WET"
         THEN TriggerNotification(SaturationMessage)
         ELSE /\ notification' = NULL
              /\ osNotified' = FALSE
              /\ vibrated' = FALSE

NoAlert == osNotified' = FALSE /\ vibrated' = FALSE

(***************************************************************************)
(* The polling effect, lines 212-227: when connectionStatus or             *)
(* isSimulationMode (and with it fetchReading) changed, the previous run   *)
(* is cleaned up and the effect body runs again.                           *)
(***************************************************************************)
Polling(cs, sim) == cs = "connected" \/ sim

\* the effect without its cleanup: no clearInterval
PollingEffectLeaky(cs2, sim2) ==
  IF cs2 = connectionStatus /\ sim2 = isSimulationMode THEN timers
  ELSE IF ~Polling(cs2, sim2) THEN timers ELSE timers + 1

PollingEffect(cs2, sim2) ==
  IF cs2 = connectionStatus /\ sim2 = isSimulationMode THEN timers
  ELSE LET cleared == IF Polling(connectionStatus, isSimulationMode)
                      THEN timers - 1 ELSE timers
       IN  IF ~Polling(cs2, sim2) THEN cleared ELSE cleared + 1

\* the countdown that was being followed is disturbed
Untrack == countdownFrom' = 0 /\ ticksSince' = 0

Track(n) ==
  /\ countdownFrom' = IF n \in {CadenceWet, CadenceMixed, CadenceDry} THEN n ELSE 0
  /\ ticksSince' = 0

Env == <<gattConnected, permissionGranted, vibrateSupported, variant, world>>
History == <<readings, latestReading, clock, arrived, chart>>
Refs == <<deviceRef, characteristicRef>>

(***************************************************************************)
(* connectBluetooth, lines 105-173.  Each action is the code between two   *)
(* awaits; attempts[i].sim is the isSimulationMode that the fetchReading   *)
(* of the render in which the button was clicked has closed over.          *)
(***************************************************************************)
ErrorText(name) ==
  CASE name = "NotFoundError" -> ""
    [] name = "SecurityError" -> "Security blocked. Ensure you are using HTTPS or localhost."
    [] name = "NetworkError" ->
         "Connection failed. Please UNPAIR the device from your phone settings and try again."
    [] OTHER -> "Failed to connect."

\* the button is rendered unless 'connected' and disabled while 'connecting'
ConnectClick(i) ==
  /\ connectionStatus = "disconnected"
  /\ i <= world.overlap
  /\ attempts[i].pc = "idle"
  /\ \A j \in Slots : j < i => attempts[j].pc # "idle"
  /\ connectionStatus' = "connecting"
  /\ isSimulationMode' = FALSE
  /\ errorMessage' = IF variant = "banner" THEN NULL ELSE errorMessage
  /\ attempts' = [attempts EXCEPT ![i] = [pc |-> "requestDevice", sim |-> isSimulationMode]]
  /\ timers' = PollingEffect("connecting", FALSE)
  /\ fetched' = "none"
  /\ NoAlert
  /\ Untrack
  /\ UNCHANGED <<History, notification, nextUpdateIn, Refs, inFlight, Env>>

\* a catch block that forgets setConnectionStatus('disconnected')
ConnectFailedStuck(i, msg) ==
  /\ errorMessage' = IF variant = "banner" /\ msg # "" THEN msg ELSE errorMessage
  /\ attempts' = [attempts EXCEPT ![i] = Idle]
  /\ fetched' = "none"
  /\ NoAlert
  /\ Untrack
  /\ UNCHANGED <<connectionStatus, timers, History, notification, nextUpdateIn,
                 isSimulationMode, inFlight>>

\* the catch block, lines 160-172
ConnectFailed(i, msg) ==
  /\ connectionStatus' = "disconnected"
  /\ errorMessage' = IF variant = "banner" /\ msg # "" THEN msg ELSE errorMessage
  /\ attempts' = [attempts EXCEPT ![i] = Idle]
  /\ timers' = PollingEffect("disconnected", isSimulationMode)
  /\ fetched' = "none"
  /\ NoAlert
  /\ Untrack
  /\ UNCHANGED <<History, notification, nextUpdateIn, isSimulationMode, inFlight>>

RequestDeviceDone(i) ==
  /\ attempts[i].pc = "requestDevice"
  /\ \/ /\ deviceRef' = "device"
        /\ attempts' = [attempts EXCEPT ![i].pc = "gattConnect"]
        /\ fetched' = "none"
        /\ NoAlert
        /\ UNCHANGED <<connectionStatus, History, notification, errorMessage, nextUpdateIn,
                       isSimulationMode, characteristicRef, timers, inFlight, Env,
                       countdownFrom, ticksSince>>
     \/ /\ \E name \in ErrorNames : ConnectFailed(i, ErrorText(name))
        /\ UNCHANGED <<Refs, Env>>

GattConnectDone(i) ==
  /\ attempts[i].pc = "gattConnect"
  /\ \/ /\ gattConnected' = TRUE
        /\ attempts' = [attempts EXCEPT ![i].pc = "serviceLong"]
        /\ fetched' = "none"
        /\ NoAlert
        /\ UNCHANGED <<connectionStatus, History, notification, errorMessage, nextUpdateIn,
                       isSimulationMode, Refs, timers, inFlight, permissionGranted,
                       vibrateSupported, variant, world, countdownFrom, ticksSince>>
     \/ /\ \E name \in ErrorNames \ {"NotFoundError"} : ConnectFailed(i, ErrorText(name))
        /\ UNCHANGED <<Refs, Env>>

\* a lookup step that succeeded or fell through to the next one
Lookup(i, from, to) ==
  /\ attempts[i].pc = from
  /\ attempts' = [attempts EXCEPT ![i].pc = to]
  /\ fetched' = "none"
  /\ NoAlert
  /\ UNCHANGED <<connectionStatus, History, notification, errorMessage, nextUpdateIn,
                 isSimulationMode, Refs, timers, inFlight, Env, countdownFrom, ticksSince>>

ServiceLongDone(i) ==
  \/ gattConnected /\ Lookup(i, "serviceLong", "charLong")
  \/ Lookup(i, "serviceLong", "serviceShort")

ServiceNotFound ==
  "Service Not Found. Please ensure you selected the correct 'HMSoft' or 'BT05' device, and not your computer/headphones."
ServiceNotFoundBanner == "Could not find the HM-10 Service (FFE0). Is the device powered on?"
CharacteristicNotFound ==
  "Characteristic Not Found. The device has the service but not the data characteristic (FFE1)."
CharacteristicNotFoundBanner == "Connected, but could not find Data Characteristic (FFE1)."

ServiceShortDone(i) ==
  \/ gattConnected /\ Lookup(i, "serviceShort", "charLong")
  \/ /\ attempts[i].pc = "serviceShort"
     /\ ConnectFailed(i, IF variant = "banner" THEN ServiceNotFoundBanner ELSE ServiceNotFound)
     /\ UNCHANGED <<Refs, Env>>

\* lines 153-158: store the handle, show 'connected', await fetchReading()
Connected(i) ==
  /\ gattConnected
  /\ characteristicRef' = "characteristic"
  /\ connectionStatus' = "connected"
  /\ attempts' = [attempts EXCEPT ![i] = Idle]
  /\ timers' = PollingEffect("connected", isSimulationMode)
  /\ IF attempts[i].sim
     THEN \E d \in SimPayloads :
            /\ ProcessData(d)
            /\ nextUpdateIn' = Cadence(NewReading(d).moisture)
            /\ fetched' = "sim"
            /\ UNCHANGED inFlight
     ELSE /\ inFlight < MaxInFlight
          /\ inFlight' = inFlight + 1
          /\ fetched' = "read"
          /\ NoAlert
          /\ UNCHANGED <<History, notification, nextUpdateIn>>
  /\ Untrack
  /\ UNCHANGED <<errorMessage, isSimulationMode, deviceRef, Env>>

CharLongDone(i) ==
  \/ attempts[i].pc = "charLong" /\ Connected(i)
  \/ Lookup(i, "charLong", "charShort")

CharShortDone(i) ==
  \/ attempts[i].pc = "charShort" /\ Connected(i)
  \/ /\ attempts[i].pc = "charShort"
     /\ ConnectFailed(i, IF variant = "banner" THEN CharacteristicNotFoundBanner
                         ELSE CharacteristicNotFound)
     /\ UNCHANGED <<Refs, Env>>

(***************************************************************************)
(* onDisconnected, lines 175-181: the gattserverdisconnected listener.     *)
(* The link is lost, the reads that were pending are rejected (their catch *)
(* block only logs, or sets the error banner), and the listener runs: a    *)
(* readValue() promise settles with a value only while its GATT server is  *)
(* connected.                                                              *)
(***************************************************************************)
\* a listener that also resets the displayed data
OnDisconnectedClears ==
  /\ gattConnected
  /\ gattConnected' = FALSE
  /\ connectionStatus' = "disconnected"
  /\ deviceRef' = NULL
  /\ characteristicRef' = NULL
  /\ notification' = DisconnectedMessage
  /\ inFlight' = 0
  /\ errorMessage' = IF variant = "banner" /\ inFlight > 0 THEN ReadFailedMessage
                     ELSE errorMessage
  /\ timers' = PollingEffect("disconnected", isSimulationMode)
  /\ fetched' = IF inFlight > 0 THEN "rejected" ELSE "none"
  /\ NoAlert
  /\ Untrack
  /\ readings' = <<>>
  /\ latestReading' = NoReading
  /\ arrived' = <<>>
  /\ chart' = HistoryChart(readings')
  /\ UNCHANGED <<clock, nextUpdateIn, isSimulationMode, attempts, permissionGranted,
                 vibrateSupported, variant, world>>

\* a platform under which the pending reads outlive the link
OnDisconnectedKeepsReads ==
  /\ gattConnected
  /\ gattConnected' = FALSE
  /\ connectionStatus' = "disconnected"
  /\ deviceRef' = NULL
  /\ characteristicRef' = NULL
  /\ notification' = DisconnectedMessage
  /\ timers' = PollingEffect("disconnected", isSimulationMode)
  /\ fetched' = "none"
  /\ NoAlert
  /\ Untrack
  /\ UNCHANGED <<History, nextUpdateIn, isSimulationMode, attempts, permissionGranted,
                 vibrateSupported, variant, world, inFlight, errorMessage>>

OnDisconnected ==
  /\ gattConnected
  /\ gattConnected' = FALSE
  /\ connectionStatus' = "disconnected"
  /\ deviceRef' = NULL
  /\ characteristicRef' = NULL
  /\ notification' = DisconnectedMessage
  /\ inFlight' = 0
  /\ errorMessage' = IF variant = "banner" /\ inFlight > 0 THEN ReadFailedMessage
                     ELSE errorMessage
  /\ timers' = PollingEffect("disconnected", isSimulationMode)
  /\ fetched' = IF inFlight > 0 THEN "rejected" ELSE "none"
  /\ NoAlert
  /\ Untrack
  /\ UNCHANGED <<History, nextUpdateIn, isSimulationMode, attempts, permissionGranted,
                 vibrateSupported, variant, world>>

\* disconnectDevice, src/unnamed/part_002 lines 176-183: the Disconnect button,
\* rendered in place of Connect while the status is 'connected' (lines
\* 322-337).  With a device whose link is up it calls gatt.disconnect(), which
\* fires gattserverdisconnected and so runs onDisconnected; otherwise it
\* calls onDisconnected itself and touches no link.
DisconnectDevice ==
  /\ variant = "banner"
  /\ connectionStatus = "connected"
  /\ IF deviceRef # NULL /\ gattConnected
     THEN OnDisconnected
     ELSE /\ connectionStatus' = "disconnected"
          /\ deviceRef' = NULL
          /\ characteristicRef' = NULL
          /\ notification' = DisconnectedMessage
          /\ timers' = PollingEffect("disconnected", isSimulationMode)
          /\ fetched' = "none"
          /\ NoAlert
          /\ Untrack
          /\ UNCHANGED <<History, errorMessage, nextUpdateIn, isSimulationMode, attempts,
                         inFlight, Env>>

(***************************************************************************)
(* fetchReading, lines 184-209, as called by the interval timer, and the   *)
(* timer callback itself, lines 215-224.                                   *)
(*                                                                         *)
(* In simulation mode fetchReading runs processData synchronously inside   *)
(* the updater of setNextUpdateIn, so setNextUpdateIn(cadence) is called   *)
(* while the updater that returns 5 is being evaluated.  Which of the two  *)
(* writes is applied last depends on where React evaluates the updater:    *)
(* eagerly at dispatch (the nested write is queued first, 5 is applied     *)
(* last) or in the render phase (the nested write is a render-phase update *)
(* applied in the re-render, after the 5).  Both happen, so the action     *)
(* chooses.                                                                *)
(***************************************************************************)
UpdaterOutcomes(cadence) == {TemporaryBuffer, cadence}

\* re-reads one tick late: prev <= 0
ExpiredAtZero(prev) == prev <= 0

\* fetches one tick early: prev <= 2
ExpiredAtTwo(prev) == prev <= 2

\* line 217
Expired(prev) == prev <= 1

TickCountdown ==
  /\ ~Expired(nextUpdateIn)
  /\ nextUpdateIn' = nextUpdateIn - 1
  /\ fetched' = "none"
  /\ NoAlert
  /\ ticksSince' = IF countdownFrom > 0 THEN ticksSince + 1 ELSE ticksSince
  /\ UNCHANGED <<History, notification, inFlight, countdownFrom>>

TickSimulated ==
  /\ Expired(nextUpdateIn)
  /\ isSimulationMode
  /\ \E d \in SimPayloads :
       /\ ProcessData(d)
       /\ \E n \in UpdaterOutcomes(Cadence(NewReading(d).moisture)) :
            nextUpdateIn' = n /\ Track(n)
  /\ fetched' = "sim"
  /\ UNCHANGED inFlight

\* a callback that resets the countdown but never calls fetchReading
TickReadNoFetch ==
  /\ Expired(nextUpdateIn)
  /\ ~isSimulationMode
  /\ nextUpdateIn' = TemporaryBuffer
  /\ fetched' = "none"
  /\ NoAlert
  /\ Untrack
  /\ UNCHANGED <<History, notification, inFlight>>

TickRead ==
  /\ Expired(nextUpdateIn)
  /\ ~isSimulationMode
  /\ nextUpdateIn' = TemporaryBuffer
  /\ IF characteristicRef = NULL
     THEN fetched' = "skip" /\ UNCHANGED inFlight
     ELSE /\ inFlight < MaxInFlight
          /\ inFlight' = inFlight + 1
          /\ fetched' = "read"
  /\ NoAlert
  /\ countdownFrom' = 0
  /\ ticksSince' = IF countdownFrom > 0 THEN ticksSince + 1 ELSE 0
  /\ UNCHANGED <<History, notification>>

Tick ==
  /\ timers > 0
  /\ TickCountdown \/ TickSimulated \/ TickRead
  /\ UNCHANGED <<connectionStatus, errorMessage, isSimulationMode, Refs, timers,
                 attempts, Env>>

\* the readValue() promise of line 200 resolves: lines 201-204
ReadResolved ==
  /\ inFlight > 0
  /\ gattConnected
  /\ inFlight' = inFlight - 1
  /\ fetched' = "none"
  /\ \E d \in world.lines :
       /\ ProcessData(d)
       /\ nextUpdateIn' = Cadence(NewReading(d).moisture)
       /\ Track(Cadence(NewReading(d).moisture))
  /\ UNCHANGED <<connectionStatus, errorMessage, isSimulationMode, Refs, timers,
                 attempts, Env>>

\* a catch block that gives the connection up
ReadRejectedDisconnects ==
  /\ inFlight > 0
  /\ inFlight' = inFlight - 1
  /\ fetched' = "rejected"
  /\ errorMessage' = IF variant = "banner" THEN ReadFailedMessage ELSE errorMessage
  /\ NoAlert
  /\ connectionStatus' = "disconnected"
  /\ timers' = PollingEffect("disconnected", isSimulationMode)
  /\ UNCHANGED <<History, notification, nextUpdateIn, countdownFrom, ticksSince,
                 isSimulationMode, Refs, attempts, Env>>

\* the promise rejects: the catch block, lines 205-208
ReadRejected ==
  /\ inFlight > 0
  /\ inFlight' = inFlight - 1
  /\ fetched' = "rejected"
  /\ errorMessage' = IF variant = "banner" THEN ReadFailedMessage ELSE errorMessage
  /\ NoAlert
  /\ UNCHANGED <<History, notification, nextUpdateIn, countdownFrom, ticksSince,
                 connectionStatus, isSimulationMode, Refs, timers, attempts, Env>>

\* the user answers the permission prompt of lines 31-35
PermissionAnswered ==
  /\ ~permissionGranted
  /\ permissionGranted' = TRUE
  /\ fetched' = "none"
  /\ NoAlert
  /\ UNCHANGED <<connectionStatus, History, notification, errorMessage, nextUpdateIn,
                 isSimulationMode, Refs, timers, attempts, inFlight, gattConnected,
                 vibrateSupported, variant, world, countdownFrom, ticksSince>>

\* a toggle that empties the history but keeps the reading on display
ToggleSimulationKeepsLatest ==
  /\ IF isSimulationMode
     THEN /\ isSimulationMode' = FALSE
          /\ connectionStatus' = "disconnected"
          /\ readings' = <<>>
          /\ arrived' = <<>>
          /\ chart' = HistoryChart(readings')
          /\ timers' = PollingEffect("disconnected", FALSE)
          /\ UNCHANGED <<nextUpdateIn, latestReading>>
     ELSE /\ isSimulationMode' = TRUE
          /\ connectionStatus' = "connected"
          /\ nextUpdateIn' = SimulationFirstRead
          /\ timers' = PollingEffect("connected", TRUE)
          /\ UNCHANGED <<readings, latestReading, arrived, chart>>
  /\ fetched' = "none"
  /\ NoAlert
  /\ Untrack
  /\ UNCHANGED <<clock, notification, errorMessage, Refs, attempts, inFlight, Env>>

\* a toggle that also lets go of the Bluetooth handles when the demo ends
ToggleSimulationDropsHandles ==
  /\ IF isSimulationMode
     THEN /\ isSimulationMode' = FALSE
          /\ connectionStatus' = "disconnected"
          /\ readings' = <<>>
          /\ latestReading' = NoReading
          /\ arrived' = <<>>
          /\ chart' = HistoryChart(readings')
          /\ timers' = PollingEffect("disconnected", FALSE)
          /\ deviceRef' = NULL
          /\ characteristicRef' = NULL
          /\ UNCHANGED nextUpdateIn
     ELSE /\ isSimulationMode' = TRUE
          /\ connectionStatus' = "connected"
          /\ nextUpdateIn' = SimulationFirstRead
          /\ timers' = PollingEffect("connected", TRUE)
          /\ UNCHANGED <<readings, latestReading, arrived, chart, Refs>>
  /\ fetched' = "none"
  /\ NoAlert
  /\ Untrack
  /\ UNCHANGED <<clock, notification, errorMessage, attempts, inFlight, Env>>

\* toggleSimulation, lines 235-246
ToggleSimulation ==
  /\ IF isSimulationMode
     THEN /\ isSimulationMode' = FALSE
          /\ connectionStatus' = "disconnected"
          /\ readings' = <<>>
          /\ latestReading' = NoReading
          /\ arrived' = <<>>
          /\ chart' = HistoryChart(readings')
          /\ timers' = PollingEffect("disconnected", FALSE)
          /\ UNCHANGED nextUpdateIn
     ELSE /\ isSimulationMode' = TRUE
          /\ connectionStatus' = "connected"
          /\ nextUpdateIn' = SimulationFirstRead
          /\ timers' = PollingEffect("connected", TRUE)
          /\ UNCHANGED <<readings, latestReading, arrived, chart>>
  /\ fetched' = "none"
  /\ NoAlert
  /\ Untrack
  /\ UNCHANGED <<clock, notification, errorMessage, Refs, attempts, inFlight, Env>>

(***************************************************************************)
(* The component after mounting, lines 17-28.                              *)
(***************************************************************************)
Mounted ==
  /\ connectionStatus = "disconnected"
  /\ readings = <<>>
  /\ latestReading = NoReading
  /\ notification = NULL
  /\ errorMessage = NULL
  /\ nextUpdateIn = 0
  /\ isSimulationMode = FALSE
  /\ deviceRef = NULL
  /\ characteristicRef = NULL
  /\ timers = 0
  /\ attempts = [i \in Slots |-> Idle]
  /\ inFlight = 0
  /\ gattConnected = FALSE
  /\ osNotified = FALSE
  /\ vibrated = FALSE
  /\ fetched = "none"
  /\ clock = 0
  /\ arrived = <<>>
  /\ chart = HistoryChart(<<>>)
  /\ countdownFrom = 0
  /\ ticksSince = 0

\* the peripheral reports MIXED or DRY and the simulator draws WET: every
\* status and both sources of a reading
Init ==
  /\ Mounted
  /\ permissionGranted = TRUE
  /\ vibrateSupported = TRUE
  /\ variant = "base"
  /\ world = [lines |-> {S_MIXED, S_DRY}, draws |-> {"WET"}, limit |-> MaxClock,
              overlap |-> 1]

Next ==
  \/ \E i \in Slots : ConnectClick(i)
  \/ \E i \in Slots : RequestDeviceDone(i)
  \/ \E i \in Slots : GattConnectDone(i)
  \/ \E i \in Slots : ServiceLongDone(i)
  \/ \E i \in Slots : ServiceShortDone(i)
  \/ \E i \in Slots : CharLongDone(i)
  \/ \E i \in Slots : CharShortDone(i)
  \/ OnDisconnected
  \/ Tick
  \/ ReadResolved
  \/ ReadRejected
  \/ ToggleSimulation

Spec == Init /\ [][Next]_vars

(***************************************************************************)
(* A long demo session: the user only toggles the simulation and the       *)
(* simulator keeps drawing the same status, so that the history fills up   *)
(* and overflows.                                                          *)
(***************************************************************************)
\* readings delivered in the long session
MaxHistory == 22

InitHist ==
  /\ Mounted
  /\ permissionGranted = TRUE
  /\ vibrateSupported = TRUE
  /\ variant = "base"
  /\ world = [lines |-> {S_WET}, draws |-> {"WET"}, limit |-> MaxHistory, overlap |-> 1]

NextHist == ToggleSimulation \/ Tick

SpecHist == InitHist /\ [][NextHist]_vars

\* the state right after a successful connection, lines 153-158
JustConnected ==
  /\ connectionStatus = "connected"
  /\ readings = <<>>
  /\ latestReading = NoReading
  /\ notification = NULL
  /\ errorMessage = NULL
  /\ nextUpdateIn = 0
  /\ isSimulationMode = FALSE
  /\ deviceRef = "device"
  /\ characteristicRef = "characteristic"
  /\ timers = 1
  /\ attempts = [i \in Slots |-> Idle]
  /\ inFlight = 1
  /\ gattConnected = TRUE
  /\ osNotified = FALSE
  /\ vibrated = FALSE
  /\ fetched = "read"
  /\ clock = 0
  /\ arrived = <<>>
  /\ chart = HistoryChart(<<>>)
  /\ countdownFrom = 0
  /\ ticksSince = 0

(***************************************************************************)
(* Alerts: a session that starts connected, with every browser capability  *)
(* and a permission prompt that may be answered at any time; the readings  *)
(* come from the device and, once the demo is switched on, the simulator.  *)
(***************************************************************************)
InitAlert ==
  /\ JustConnected
  /\ permissionGranted \in BOOLEAN
  /\ vibrateSupported \in BOOLEAN
  /\ variant = "base"
  /\ world = [lines |-> DevicePayloads, draws |-> Moistures, limit |-> MaxClock,
              overlap |-> 1]

NextAlert ==
  \/ Tick
  \/ ReadResolved
  \/ ReadRejected
  \/ OnDisconnected
  \/ ToggleSimulation
  \/ PermissionAnswered

SpecAlert == InitAlert /\ [][NextAlert]_vars

(***************************************************************************)
(* Progress: the interval timer keeps firing while it is active, and a     *)
(* pending read is answered while the link is up; no read fails unless the *)
(* link drops.                                                             *)
(***************************************************************************)
InitLive ==
  /\ Mounted
  /\ permissionGranted = TRUE
  /\ vibrateSupported = TRUE
  /\ variant = "base"
  /\ world = [lines |-> {S_WET, S_MIXED}, draws |-> {"WET"}, limit |-> MaxClock,
              overlap |-> 1]

NextLive ==
  \/ \E i \in Slots : ConnectClick(i)
  \/ \E i \in Slots : RequestDeviceDone(i)
  \/ \E i \in Slots : GattConnectDone(i)
  \/ \E i \in Slots : ServiceLongDone(i)
  \/ \E i \in Slots : ServiceShortDone(i)
  \/ \E i \in Slots : CharLongDone(i)
  \/ \E i \in Slots : CharShortDone(i)
  \/ OnDisconnected
  \/ Tick
  \/ ReadResolved
  \/ ToggleSimulation

SpecLive == InitLive /\ [][NextLive]_vars /\ WF_vars(Tick) /\ WF_vars(ReadResolved)

(***************************************************************************)
(* Overlapping attempts: the user may click Connect again whenever the     *)
(* button is enabled, also while an earlier connectBluetooth call is still *)
(* suspended at an await.                                                  *)
(***************************************************************************)
InitOverlap ==
  /\ Mounted
  /\ permissionGranted = TRUE
  /\ vibrateSupported = TRUE
  /\ variant = "base"
  /\ world = [lines |-> {S_WET}, draws |-> {"WET"}, limit |-> 1, overlap |-> MaxAttempts]

SpecOverlap == InitOverlap /\ [][Next]_vars

(***************************************************************************)
(* The version with the error banner and the Disconnect button             *)
(* (src/unnamed/part_002): the whole application, the peripheral and the   *)
(* simulator both reporting WET.                                           *)
(***************************************************************************)
InitBanner ==
  /\ Mounted
  /\ permissionGranted = TRUE
  /\ vibrateSupported = TRUE
  /\ variant = "banner"
  /\ world = [lines |-> {S_WET}, draws |-> {"WET"}, limit |-> MaxClock, overlap |-> 1]

NextBanner ==
  \/ \E i \in Slots : ConnectClick(i)
  \/ \E i \in Slots : RequestDeviceDone(i)
  \/ \E i \in Slots : GattConnectDone(i)
  \/ \E i \in Slots : ServiceLongDone(i)
  \/ \E i \in Slots : ServiceShortDone(i)
  \/ \E i \in Slots : CharLongDone(i)
  \/ \E i \in Slots : CharShortDone(i)
  \/ OnDisconnected
  \/ DisconnectDevice
  \/ Tick
  \/ ReadResolved
  \/ ReadRejected
  \/ ToggleSimulation

SpecBanner == InitBanner /\ [][NextBanner]_vars

(***************************************************************************)
(* The chart: a demo session picked up after some simulated readings, the  *)
(* simulator having drawn the statuses in rotation and drawing any status  *)
(* from then on.                                                           *)
(***************************************************************************)
\* readings on the page when the session is picked up
MaxChart == 12

\* readings the simulator delivers from then on
ChartExtra == 2

StatusCycle == <<"WET", "MIXED", "DRY">>

\* the k-th reading of a session, a simulated one of status m
SimReading(k, m) ==
  [id |-> k, temperature |-> Parsed(SimPayload(m)).temperature,
   moisture |-> Parsed(SimPayload(m)).moisture]

DemoHistory(n, o) == [k \in 1..n |-> SimReading(k, StatusCycle[((k + o) % 3) + 1])]

\* the demo after its n-th reading, the countdown standing at the 5 the timer
\* callback returned; with n = 0, the demo just switched on
InDemo(n, o) ==
  /\ connectionStatus = "connected"
  /\ isSimulationMode = TRUE
  /\ readings = DemoHistory(n, o)
  /\ arrived = readings
  /\ chart = HistoryChart(readings)
  /\ clock = n
  /\ latestReading = IF n = 0 THEN NoReading ELSE readings[n]
  /\ notification = IF n > 0 /\ readings[n].moisture = "WET" THEN SaturationMessage ELSE NULL
  /\ osNotified = (n > 0 /\ readings[n].moisture = "WET")
  /\ vibrated = (n > 0 /\ readings[n].moisture = "WET")
  /\ fetched = IF n = 0 THEN "none" ELSE "sim"
  /\ nextUpdateIn = IF n = 0 THEN SimulationFirstRead ELSE TemporaryBuffer
  /\ countdownFrom = 0
  /\ ticksSince = 0
  /\ errorMessage = NULL
  /\ deviceRef = NULL
  /\ characteristicRef = NULL
  /\ timers = 1
  /\ attempts = [i \in Slots |-> Idle]
  /\ inFlight = 0
  /\ gattConnected = FALSE

InitChart ==
  \E n \in 0..MaxChart, o \in 0..2 :
    /\ InDemo(n, o)
    /\ permissionGranted = TRUE
    /\ vibrateSupported = TRUE
    /\ variant = "base"
    /\ world = [lines |-> {S_WET}, draws |-> Moistures, limit |-> n + ChartExtra,
                overlap |-> 1]

SpecChart == InitChart /\ [][NextHist]_vars

(***************************************************************************)
(* Parsing: the component is connected, one read is pending, and the       *)
(* peripheral answers it with one line built from a few text pieces.       *)
(***************************************************************************)
\* pieces a line is built from
MaxPieces == 4

Pieces ==
  {WetWord, MixedWord, <<"w", "e", "t">>, <<"M", "i", "x", "e", "d">>, <<"D", "R", "Y">>,
   <<" ">>, <<",">>, <<"7">>, <<".">>, <<"x">>, <<"-">>, <<"\n">>}

RECURSIVE Lines(_)
Lines(n) ==
  IF n = 0 THEN {<<>>}
  ELSE LET shorter == Lines(n - 1)
       IN  shorter \cup {l \o p : l \in shorter, p \in Pieces}

InitParse ==
  /\ JustConnected
  /\ permissionGranted = TRUE
  /\ vibrateSupported = TRUE
  /\ variant = "base"
  /\ \E l \in Lines(MaxPieces) :
       world = [lines |-> {l}, draws |-> {}, limit |-> 1, overlap |-> 1]

NextParse == ReadResolved \/ ReadRejected

SpecParse == InitParse /\ [][NextParse]_vars

(***************************************************************************)
(* Properties.                                                             *)
(***************************************************************************)
Min(a, b) == IF a < b THEN a ELSE b

\* C1: the stored history holds at most 20 readings and is exactly the most
\* recent min(n, 20) of the n readings processed since the history was last
\* cleared, in arrival order.
C1_HistoryIsMostRecentTwenty ==
  /\ Len(readings) <= 20
  /\ Len(readings) = Min(Len(arrived), 20)
  /\ \A k \in 1..Len(readings) :
       readings[k] = arrived[Len(arrived) - Len(readings) + k]

\* the 21st reading since the last clear has evicted the oldest one
C1_Witness ==
  /\ Len(arrived) = 21
  /\ Len(readings) = 20
  /\ readings[1] = arrived[2]
  /\ readings[20] = arrived[21]

Processed == clock' # clock

TableCadence(moisture) ==
  CASE moisture = "WET" -> 30 [] moisture = "MIXED" -> 120 [] moisture = "DRY" -> 300

\* C2: processing a reading leaves in nextUpdateIn the table value of the
\* reading's moisture status (30 WET, 120 MIXED, 300 DRY), whatever the
\* countdown, the temperature or the previous status was.
C2_CadenceFromTable ==
  [][Processed => nextUpdateIn' = TableCadence(latestReading'.moisture)]_vars

\* C3: a processed WET reading sets the banner to the saturation message,
\* raises an OS notification exactly when permission is granted and vibrates
\* exactly when vibration is supported; a processed MIXED or DRY reading
\* raises neither and leaves the banner null.
C3_AlertOnEveryWetReading ==
  [][Processed =>
       IF latestReading'.moisture = "WET"
       THEN /\ notification' = "Excessive moisture detected! Silica gel is saturated."
            /\ osNotified' = permissionGranted
            /\ vibrated' = vibrateSupported
       ELSE /\ notification' = NULL
            /\ osNotified' = FALSE
            /\ vibrated' = FALSE]_vars

\* a second consecutive WET reading alerted again, with the permission
\* granted and no vibration support
C3_Witness ==
  /\ Len(arrived) >= 2
  /\ arrived[Len(arrived)].moisture = "WET"
  /\ arrived[Len(arrived) - 1].moisture = "WET"
  /\ latestReading = arrived[Len(arrived)]
  /\ notification = SaturationMessage
  /\ osNotified
  /\ ~vibrateSupported
  /\ ~vibrated

HasComma(l) == \E i \in 1..Len(l) : l[i] = ","
FirstComma(l) == CHOOSE i \in 1..Len(l) : l[i] = "," /\ \A j \in 1..(i - 1) : l[j] # ","
AfterFirstComma(l) == SubSeq(l, FirstComma(l) + 1, Len(l))
SecondToken(l) ==
  LET rest == AfterFirstComma(l)
  IN  IF HasComma(rest) THEN SubSeq(rest, 1, FirstComma(rest) - 1) ELSE rest

\* C4: for a payload with at least one comma the status is decided by the
\* second comma-separated token alone, trimmed and upper-cased: exactly WET
\* gives WET, exactly MIXED gives MIXED, every other token gives DRY.
C4_SecondTokenDecides ==
  \A l \in world.lines :
    (clock = 1 /\ HasComma(l)) =>
      LET token == ToUpperCase(Trim(SecondToken(l)))
      IN  latestReading.moisture =
            (IF token = <<"W", "E", "T">> THEN "WET"
             ELSE IF token = <<"M", "I", "X", "E", "D">> THEN "MIXED"
             ELSE "DRY")

\* a second token that merely contains WET was read as DRY
C4_Witness ==
  \E l \in world.lines :
    /\ clock = 1
    /\ HasComma(l)
    /\ Includes(SecondToken(l), WetWord)
    /\ SecondToken(l) # WetWord
    /\ latestReading.moisture = "DRY"

\* C5: after a reading that sets the countdown to N, and while nothing but
\* the timer touches the countdown, each tick decreases it by exactly 1 and
\* the next read is initiated on exactly the N-th tick.
C5_ReadOnNthTick ==
  [][(countdownFrom > 0 /\ Tick) =>
       /\ fetched' = "none" => nextUpdateIn' = nextUpdateIn - 1
       /\ fetched' \in {"read", "sim"} <=> ticksSince + 1 = countdownFrom
       /\ fetched' # "skip"]_vars

\* a Bluetooth read was initiated by the 120th tick after a MIXED reading
C5_Witness ==
  /\ fetched = "read"
  /\ latestReading # NoReading
  /\ latestReading.moisture = "MIXED"
  /\ ticksSince = 120
  /\ nextUpdateIn = 5

AttemptSteps ==
  {<<"idle", "requestDevice">>, <<"requestDevice", "gattConnect">>,
   <<"gattConnect", "serviceLong">>, <<"serviceLong", "charLong">>,
   <<"serviceLong", "serviceShort">>, <<"serviceShort", "charLong">>,
   <<"charLong", "charShort">>}

\* C6: an attempt first shows 'connecting'; it goes through device selection,
\* GATT connect, service lookup (long, else short) and characteristic lookup
\* (long, else short); it ends 'connected' with the handle stored only out of
\* a characteristic lookup, and otherwise ends 'disconnected' without storing
\* the handle.
C6_AttemptOutcome ==
  [][\A i \in Slots :
       LET from == attempts[i].pc
           to   == attempts'[i].pc
       IN  /\ (from = "idle" /\ to # "idle") => connectionStatus' = "connecting"
           /\ (from # to /\ to # "idle") => <<from, to>> \in AttemptSteps
           /\ (from # "idle" /\ to = "idle") =>
                \/ /\ from \in {"charLong", "charShort"}
                   /\ connectionStatus' = "connected"
                   /\ characteristicRef' # NULL
                \/ /\ connectionStatus' = "disconnected"
                   /\ characteristicRef' = characteristicRef]_vars

\* an attempt failed after the device was selected and the link came up:
\* 'disconnected', no handle stored
C6_Witness ==
  /\ \A i \in Slots : attempts[i].pc = "idle"
  /\ connectionStatus = "disconnected"
  /\ deviceRef # NULL
  /\ gattConnected
  /\ characteristicRef = NULL
  /\ ~isSimulationMode

\* C7: a gattserverdisconnected event sets connectionStatus to 'disconnected',
\* both handles to null and the banner to 'Device Disconnected', and leaves
\* the history, latestReading, nextUpdateIn and isSimulationMode unchanged.
C7_DisconnectEffect ==
  [][(gattConnected /\ ~gattConnected') =>
       /\ connectionStatus' = "disconnected"
       /\ deviceRef' = NULL
       /\ characteristicRef' = NULL
       /\ notification' = "Device Disconnected"
       /\ UNCHANGED <<readings, latestReading, nextUpdateIn, isSimulationMode>>]_vars

\* the link dropped while readings were on display
C7_Witness ==
  /\ ~gattConnected
  /\ notification = DisconnectedMessage
  /\ connectionStatus = "disconnected"
  /\ Len(readings) > 0
  /\ latestReading # NoReading
  /\ nextUpdateIn > 1

\* C8: at most one polling timer is active, one is active exactly when
\* connectionStatus is 'connected' or isSimulationMode is true, and when
\* neither holds no tick happens.
C8_OneTimerWhilePolling ==
  /\ [](timers <= 1 /\ (timers = 1 <=> (connectionStatus = "connected" \/ isSimulationMode)))
  /\ [][Tick => (connectionStatus = "connected" \/ isSimulationMode)]_vars

\* the timer runs on simulation alone after the status fell back
C8_Witness ==
  /\ timers = 1
  /\ isSimulationMode
  /\ connectionStatus = "disconnected"
  /\ clock > 0

AttemptSucceeded ==
  \E i \in Slots :
    /\ attempts[i].pc \in {"charLong", "charShort"}
    /\ attempts'[i].pc = "idle"
    /\ connectionStatus' = "connected"

\* C9: a successful connection attempt initiates a read of the characteristic
\* in the same step, before any timer tick; enabling the simulation sets
\* nextUpdateIn to 1.
C9_ImmediateRead ==
  [][/\ AttemptSucceeded => (fetched' = "read" /\ inFlight' = inFlight + 1)
     /\ (~isSimulationMode /\ isSimulationMode') => nextUpdateIn' = 1]_vars

\* C10: while the timer stays active (the status stays 'connected' or the
\* simulation stays on), ticks keep occurring and reads are answered, every
\* processed reading is eventually followed by another one, up to the
\* readings the environment delivers.
C10_AnotherReadingFollows ==
  \A k \in 1..(MaxClock - 1) :
    (clock = k) ~> (clock > k \/ ~(connectionStatus = "connected" \/ isSimulationMode))

\* a second reading was processed over the same Bluetooth connection
C10_Witness ==
  /\ clock >= 2
  /\ Len(readings) >= 2
  /\ connectionStatus = "connected"
  /\ ~isSimulationMode
  /\ gattConnected
  /\ readings[Len(readings)].temperature # ParseFloat(SimTemp)
  /\ readings[Len(readings) - 1].temperature # ParseFloat(SimTemp)

\* w occurs in l at position i, compared character by character
OccursAt(l, w, i) ==
  /\ i + Len(w) - 1 <= Len(l)
  /\ \A k \in 1..Len(w) : l[i + k - 1] = w[k]

Occurs(l, w) == \E i \in 1..Len(l) : OccursAt(l, w, i)

\* C11: for a payload with no comma the status is WET if the payload contains
\* the upper-case substring WET, otherwise MIXED if it contains the upper-case
\* substring MIXED, otherwise DRY; WET wins when both occur, and lower-case
\* wet or mixed give DRY.
C11_FallbackIsCaseSensitive ==
  \A l \in world.lines :
    (clock = 1 /\ ~HasComma(l)) =>
      latestReading.moisture =
        (IF Occurs(l, <<"W", "E", "T">>) THEN "WET"
         ELSE IF Occurs(l, <<"M", "I", "X", "E", "D">>) THEN "MIXED"
         ELSE "DRY")

\* a payload without a comma that spells wet in lower case was read as DRY
C11_Witness ==
  \E l \in world.lines :
    /\ clock = 1
    /\ ~HasComma(l)
    /\ Occurs(l, <<"w", "e", "t">>)
    /\ latestReading.moisture = "DRY"

\* the text processData hands to parseFloat: the first comma-separated part
\* when there is a comma, the whole payload otherwise
TemperatureText(l) == IF HasComma(l) THEN SubSeq(l, 1, FirstComma(l) - 1) ELSE l

\* C12: the stored temperature is always a number, and it is 0 when the
\* temperature text cannot be parsed, on the comma-delimited path as well as
\* on the fallback path.
C12_TemperatureIsNumber ==
  \A l \in world.lines :
    clock = 1 =>
      /\ ~latestReading.temperature.nan
      /\ ParseFloat(TemperatureText(l)).nan =>
            (latestReading.temperature.mant = 0 /\ latestReading.temperature.exp = 0)

C14_BufferIsTemporary ==
  [][/\ (Tick /\ isSimulationMode /\ nextUpdateIn <= 1) =>
          /\ clock' = clock + 1
          /\ nextUpdateIn' # 5
          /\ nextUpdateIn' = TableCadence(latestReading'.moisture)
     /\ (inFlight' < inFlight /\ clock' = clock + 1) =>
          /\ nextUpdateIn' # 5
          /\ nextUpdateIn' = TableCadence(latestReading'.moisture)]_vars

\* a read failed and the link is still up
ReadFailed == fetched' = "rejected" /\ gattConnected'

\* C15 as claimed: a failed read leaves the history, latestReading, the
\* banner, connectionStatus and both handles unchanged, and while the
\* connection stays up the next read is initiated at most 5 ticks after the
\* tick that started the failed one.  Reads start only on a tick that finds
\* the countdown at 1 or less, so the countdown standing when the read fails
\* must be 5 or less.
C15_RetryWithinFiveTicks ==
  [][ReadFailed =>
       /\ UNCHANGED <<readings, latestReading, notification, connectionStatus,
                      deviceRef, characteristicRef>>
       /\ (connectionStatus' = "connected" /\ ~isSimulationMode') => nextUpdateIn' <= 5]_vars

\* C15 amended: a failed read leaves the history, latestReading, the banner,
\* connectionStatus, both handles and the countdown unchanged; a read that
\* the timer starts puts the countdown at 5, every other tick takes 1 off
\* it, and the next read is started by the tick that finds it at 1 or less.
C15_FailedReadKeepsCountdown ==
  [][/\ ReadFailed =>
          UNCHANGED <<readings, latestReading, notification, connectionStatus,
                      deviceRef, characteristicRef, nextUpdateIn>>
     /\ (Tick /\ inFlight' = inFlight + 1) => nextUpdateIn' = 5
     /\ (Tick /\ nextUpdateIn > 1) => (nextUpdateIn' = nextUpdateIn - 1 /\ inFlight' = inFlight)
     /\ (Tick /\ nextUpdateIn <= 1 /\ ~isSimulationMode /\ characteristicRef # NULL) =>
          inFlight' = inFlight + 1]_vars

\* a read failed over a live connection with more than 5 ticks left on the
\* countdown of an earlier reading
C15_Witness ==
  /\ fetched = "rejected"
  /\ gattConnected
  /\ connectionStatus = "connected"
  /\ ~isSimulationMode
  /\ characteristicRef # NULL
  /\ Len(readings) > 0
  /\ nextUpdateIn > 5

\* C16 as claimed: at most one read of the characteristic is in flight.
C16_OneReadInFlight == inFlight <= 1

\* C16 amended: reads may overlap; a read is initiated only by a successful
\* connection attempt or by a tick that finds the countdown at 1 or less,
\* one read per such step, and the tick leaves the countdown at 5.
C16_ReadsStartOnExpiryOrConnect ==
  [][inFlight' > inFlight =>
       /\ inFlight' = inFlight + 1
       /\ \/ AttemptSucceeded
          \/ (Tick /\ nextUpdateIn <= 1 /\ nextUpdateIn' = 5)]_vars

\* the timer started a second read while the first one was still pending
C16_Witness ==
  /\ inFlight = 2
  /\ fetched = "read"
  /\ nextUpdateIn = 5
  /\ connectionStatus = "connected"
  /\ ~isSimulationMode

\* C17: with the simulation off, after a gattserverdisconnected event the
\* history, latestReading and the 'Device Disconnected' banner do not change
\* until a later connection attempt succeeds, also when a read was in flight
\* when the link dropped.  The handle is null from the event until the next
\* success.
C17_QuietAfterDisconnect ==
  [][(characteristicRef = NULL /\ notification = "Device Disconnected" /\ ~isSimulationMode) =>
       \/ AttemptSucceeded
       \/ UNCHANGED <<readings, latestReading, notification>>]_vars

\* the link dropped with a read in flight and readings on display
C17_Witness ==
  /\ fetched = "rejected"
  /\ ~gattConnected
  /\ inFlight = 0
  /\ characteristicRef = NULL
  /\ notification = DisconnectedMessage
  /\ ~isSimulationMode
  /\ Len(readings) > 0

\* C18: while isSimulationMode is true every processed reading comes from
\* the simulator and the characteristic is never read.
C18_SimulationNeverReads ==
  [][isSimulationMode =>
       /\ inFlight' <= inFlight
       /\ fetched' # "read"
       /\ Processed => fetched' = "sim"]_vars

\* C19: connectionStatus 'disconnected' implies a null characteristic handle.
C19_DisconnectedHasNoHandle ==
  connectionStatus = "disconnected" => characteristicRef = NULL

Pending == {i \in Slots : attempts[i].pc # "idle"}

\* C20: at most one connection attempt is in progress at any time: Connect
\* cannot be started while an earlier attempt has not finished.
C20_OneAttemptAtATime ==
  /\ [](Cardinality(Pending) <= 1)
  /\ [][(\E i \in Slots : attempts[i].pc = "idle" /\ attempts'[i].pc = "requestDevice") =>
          Pending = {}]_vars

\* the demo switch goes on in this step: only toggleSimulation sets it
SimulationEnabled == ~isSimulationMode /\ isSimulationMode'

\* the demo switch goes off by the toggle: the only other writer of the
\* switch, connectBluetooth, leaves the status at 'connecting'
SimulationDisabled ==
  isSimulationMode /\ ~isSimulationMode' /\ connectionStatus' # "connecting"

\* C21: enabling simulation sets isSimulationMode to true, connectionStatus
\* to 'connected' and nextUpdateIn to 1 and leaves the history, latestReading,
\* the banner and both handles unchanged; disabling it sets isSimulationMode
\* to false and connectionStatus to 'disconnected', empties the history, sets
\* latestReading to null and leaves the banner, nextUpdateIn and both handles
\* unchanged.
C21_ToggleEffect ==
  /\ [][SimulationEnabled =>
          /\ connectionStatus' = "connected"
          /\ nextUpdateIn' = 1
          /\ readings' = readings
          /\ latestReading' = latestReading
          /\ notification' = notification
          /\ errorMessage' = errorMessage
          /\ deviceRef' = deviceRef
          /\ characteristicRef' = characteristicRef]_vars
  /\ [][SimulationDisabled =>
          /\ connectionStatus' = "disconnected"
          /\ readings' = <<>>
          /\ latestReading' = NoReading
          /\ notification' = notification
          /\ errorMessage' = errorMessage
          /\ nextUpdateIn' = nextUpdateIn
          /\ deviceRef' = deviceRef
          /\ characteristicRef' = characteristicRef]_vars

\* the demo was switched off on top of a session that had shown a reading and
\* still holds its handles: the history is gone, the banner, the countdown and
\* the handles are those of before
C21_Witness ==
  /\ ~isSimulationMode
  /\ connectionStatus = "disconnected"
  /\ readings = <<>>
  /\ latestReading = NoReading
  /\ clock > 0
  /\ notification # NULL
  /\ nextUpdateIn > 1
  /\ deviceRef # NULL
  /\ characteristicRef # NULL

\* C22: in every reachable state latestReading is null exactly when the
\* history is empty, and otherwise latestReading is the last element of the
\* history.
C22_LatestIsLastOfHistory ==
  /\ (latestReading = NoReading) <=> (readings = <<>>)
  /\ readings # <<>> => latestReading = readings[Len(readings)]

\* a reading arrived after the history had been cleared: the history holds
\* that one reading, not the first of the session
C22_Witness ==
  /\ Len(readings) = 1
  /\ clock = 2
  /\ latestReading = readings[1]
  /\ latestReading.id = 2

\* C23: in every reachable state nextUpdateIn is an integer between 0 and 300
\* inclusive; it is never negative, and once the polling timer has ticked it
\* is at least 1 for as long as the timer keeps running: every tick leaves it
\* at 1 or more, and no step of a running timer takes it from 1 or more to 0.
C23_CountdownRange ==
  /\ [](nextUpdateIn \in 0..300)
  /\ [][Tick => nextUpdateIn' >= 1]_vars
  /\ [][(timers > 0 /\ timers' > 0 /\ nextUpdateIn >= 1) => nextUpdateIn' >= 1]_vars

\* the timer has counted a DRY cadence of 300 down to 1
C23_Witness ==
  /\ timers > 0
  /\ nextUpdateIn = 1
  /\ countdownFrom = CadenceDry
  /\ ticksSince = CadenceDry - 1

\* the state onDisconnected leaves behind, until the status changes again (a
\* new attempt shows 'connecting', the demo switched on shows 'connected')
AfterDisconnect ==
  /\ connectionStatus = "disconnected"
  /\ deviceRef = NULL
  /\ characteristicRef = NULL
  /\ notification = DisconnectedMessage

\* C24: in the version with a Disconnect button, pressing Disconnect leads to
\* a state with connectionStatus 'disconnected', both handles null and the
\* polling timer stopped, and no further reading is processed until the user
\* connects again or enables simulation again, whether the button was pressed
\* on a real connection or while simulation mode was on.
C24_DisconnectStopsEverything ==
  /\ [][DisconnectDevice =>
          /\ connectionStatus' = "disconnected"
          /\ deviceRef' = NULL
          /\ characteristicRef' = NULL
          /\ timers' = 0]_vars
  /\ [][(AfterDisconnect /\ ~SimulationEnabled) => clock' = clock]_vars

\* an attempt starts, fails or succeeds in this step
AttemptStarts == \E i \in Slots : attempts[i].pc = "idle" /\ attempts'[i].pc # "idle"
AttemptFails ==
  \E i \in Slots :
    attempts[i].pc # "idle" /\ attempts'[i].pc = "idle" /\ connectionStatus' = "disconnected"

\* only the device selection can be cancelled
AttemptFailsAfterSelection ==
  \E i \in Slots :
    /\ attempts[i].pc \notin {"idle", "requestDevice"}
    /\ attempts'[i].pc = "idle"
    /\ connectionStatus' = "disconnected"

NonEmptyMessage(m) == m # NULL /\ m # ""

\* C25: in the version with an error banner, errorMessage is set to null at
\* the start of every connection attempt; a failed attempt caused by the user
\* cancelling the device selection leaves it null, every other failed
\* attempt sets it to a non-empty message, a failed read sets it to
\* the read-failure message, and no other operation (processing a reading, a
\* disconnect event, the simulation toggle) changes it.
C25_ErrorMessageWriters ==
  /\ [][AttemptStarts => errorMessage' = NULL]_vars
  /\ [][AttemptFails =>
          \/ errorMessage' = NULL
          \/ NonEmptyMessage(errorMessage') /\ errorMessage' # ReadFailedMessage]_vars
  /\ [][AttemptFailsAfterSelection =>
          NonEmptyMessage(errorMessage') /\ errorMessage' # ReadFailedMessage]_vars
  /\ [][fetched' = "rejected" => errorMessage' = ReadFailedMessage]_vars
  /\ [][(~AttemptStarts /\ ~AttemptFails /\ fetched' # "rejected") =>
          errorMessage' = errorMessage]_vars

\* C26: the chart plots exactly the most recent min(10, n) readings of the
\* history, in arrival order, with moisture level 1 for WET, 0.5 for MIXED
\* and 0 for every other status, and it renders nothing when the history is
\* empty.
C26_ChartShowsLastTen ==
  LET n == Len(readings)
      k == Min(10, n)
  IN  /\ chart.rendered <=> n > 0
      /\ Len(chart.points) = k
      /\ \A j \in 1..k :
           LET r == readings[n - k + j]
           IN  /\ chart.points[j].temp = r.temperature
               /\ chart.points[j].moistureLevel =
                    (CASE r.moisture = "WET" -> [nan |-> FALSE, mant |-> 1, exp |-> 0]
                       [] r.moisture = "MIXED" -> [nan |-> FALSE, mant |-> 5, exp |-> 1]
                       [] OTHER -> [nan |-> FALSE, mant |-> 0, exp |-> 0])

\* a simulated reading has just brought the history to 12 readings of all
\* three statuses; the chart shows ten points, the first of them the third
\* reading, whose status is not that of the first, and the last two of
\* them readings of the same status
C26_Witness ==
  /\ fetched = "sim"
  /\ Len(readings) = 12
  /\ readings[12].moisture = readings[11].moisture
  /\ chart.rendered
  /\ Len(chart.points) = 10
  /\ chart.points[1].moistureLevel = MoistureVal(readings[3].moisture)
  /\ chart.points[1].moistureLevel # MoistureVal(readings[1].moisture)
  /\ {chart.points[j].moistureLevel : j \in 1..10} = {Zero, Half, One}

====
